---------------------------- MODULE Spec2Model ----------------------------
(***************************************************************************)
(* A model of genres_active_window_checker.py: the date parser, the        *)
(* interval merger (get_all_valid_blocks), the genre tokenizer, the row    *)
(* loop of run_genre_checker and the two sorted report sheets.             *)
(*                                                                         *)
(* Text is a sequence of one-character strings.  A spreadsheet cell is a   *)
(* record: [k |-> "nan"] (an empty cell), [k |-> "str", s |-> text] or     *)
(* [k |-> "ts", d |-> day, h |-> hour] (a native timestamp).  A date is    *)
(* the ordinal of a calendar day in the year 2026 (1 = January 1st).       *)
(***************************************************************************)
EXTENDS Integers, Sequences, FiniteSets, TLC

\* ------------------------------------------------------------- bounds
\* Window cells hold days 1..MaxDay.
MaxDay == 5
\* The operator's date entries name days 1..MaxQueryDay of January.
MaxQueryDay == 3
\* A catalog has 1..MaxRows rows.
MaxRows == 3
\* A genre cell of the tokenizer's specification has at most MaxGenreLen characters.
MaxGenreLen == 3

\* ------------------------------------------------- program constants
MASTER_IDX_TITLE == 2
MASTER_IDX_GENRE == 11
MASTER_IDX_GENRE_2 == 12
MASTER_WINDOWS == << <<15, 16>>, <<18, 19>>, <<21, 22>>, <<24, 25>> >>

\* parse_date gives <<day>>, or None.
None == <<>>
NaN == [k |-> "nan"]
Str(s) == [k |-> "str", s |-> s]
Ts(d, h) == [k |-> "ts", d |-> d, h |-> h]

\* ---------------------------------------------------------------- text
Lower == <<"a", "b", "c", "d", "e", "m", "p", "t", "y">>
Capital == <<"A", "B", "C", "D", "E", "M", "P", "T", "Y">>

\* str.upper() on one character.
UpperChar(c) ==
  IF \E i \in 1..Len(Lower) : Lower[i] = c
  THEN Capital[CHOOSE i \in 1..Len(Lower) : Lower[i] = c]
  ELSE c

\* str.upper()
Upper(s) == [i \in 1..Len(s) |-> UpperChar(s[i])]

\* str.replace(a, b) for one-character a and b.
Replace(s, a, b) == [i \in 1..Len(s) |-> IF s[i] = a THEN b ELSE s[i]]

RECURSIVE LStrip(_)
LStrip(s) == IF s # <<>> /\ Head(s) = " " THEN LStrip(Tail(s)) ELSE s

RECURSIVE RStrip(_)
RStrip(s) ==
  IF s # <<>> /\ s[Len(s)] = " " THEN RStrip(SubSeq(s, 1, Len(s) - 1)) ELSE s

\* str.strip()
Strip(s) == RStrip(LStrip(s))

\* str.split(sep): the pieces between the separators, empty pieces kept, so
\* the result always has one piece more than s has separators.
RECURSIVE Split(_, _)
Split(s, sep) ==
  IF \A i \in 1..Len(s) : s[i] # sep
  THEN <<s>>
  ELSE LET i == CHOOSE j \in 1..Len(s) :
                  s[j] = sep /\ \A l \in 1..(j - 1) : s[l] # sep
       IN  <<SubSeq(s, 1, i - 1)>> \o Split(SubSeq(s, i + 1, Len(s)), sep)

\* ------------------------------------------------------- utility functions
\* clean_text(val)
clean_text(val) ==
  IF val.k = "nan" THEN <<>>
  ELSE IF val.k = "str" THEN Strip(val.s)
  ELSE <<"t", "s">>

\* pd.to_datetime(val): a timestamp stays one; the text cells of the model are
\* not dates, and to_datetime raises on them.
to_datetime(val) == IF val.k = "ts" THEN <<val>> ELSE None

\* Timestamp.normalize(): the time of day is dropped.
normalize(t) == <<t.d>>

\* parse_date(val): a day, or None.
parse_date(val) ==
  IF val.k = "nan" THEN None
  ELSE IF val.k = "str" /\ val.s = <<>> THEN None
  ELSE IF val.k = "str" /\ Upper(Strip(val.s)) = <<"E", "M", "P", "T", "Y">> THEN None
  ELSE IF to_datetime(val) = None THEN None
  ELSE normalize(to_datetime(val)[1])

\* Every date of the model is a day of 2026: the days before each month, and
\* the days of each month.
MonthStart == <<0, 31, 59, 90, 120, 151, 181, 212, 243, 273, 304, 334>>
MonthDays == <<31, 28, 31, 30, 31, 30, 31, 31, 30, 31, 30, 31>>

\* date_val.strftime('%m-%d-%Y')
format_date_str(date_val) ==
  LET m == CHOOSE i \in 1..12 :
             MonthStart[i] < date_val /\ date_val <= MonthStart[i] + MonthDays[i]
  IN  [mm |-> m, dd |-> date_val - MonthStart[m], yyyy |-> 2026]

\* ------------------------------------------------------ get_all_valid_blocks
\* Max taking the next range's end whatever the current end is.
Max_NextEnd(a, b) == b

Max(a, b) == IF a >= b THEN a ELSE b

\* One iteration of the loop over MASTER_WINDOWS: the raw range of the pair of
\* cells, or nothing.
ValidRange(sc, ec) ==
  LET s == parse_date(sc)
      e == parse_date(ec)
  IN  IF s # None /\ e # None /\ e[1] >= s[1] THEN << <<s[1], e[1]>> >> ELSE <<>>

\* raw_ranges.sort(key=lambda x: x[0]): a stable insertion by start.
RECURSIVE InsertByStart(_, _)
InsertByStart(sorted, r) ==
  IF sorted = <<>> THEN <<r>>
  ELSE IF sorted[Len(sorted)][1] <= r[1] THEN Append(sorted, r)
  ELSE Append(InsertByStart(SubSeq(sorted, 1, Len(sorted) - 1), r), sorted[Len(sorted)])

RECURSIVE SortByStart(_)
SortByStart(rs) ==
  IF rs = <<>> THEN <<>>
  ELSE InsertByStart(SortByStart(SubSeq(rs, 1, Len(rs) - 1)), rs[Len(rs)])

\* Touches without the day of tolerance: blocks a day apart stay apart.
Touches_Overlap(next_s, curr_e) == next_s <= curr_e

\* The sweep's test: does the next range continue the current block?
Touches(next_s, curr_e) == next_s <= curr_e + 1

\* Sweep without the final append of the current block.
RECURSIVE Sweep_NoFinalAppend(_, _, _, _)
Sweep_NoFinalAppend(rest, curr_s, curr_e, merged) ==
  IF rest = <<>> THEN merged
  ELSE IF Touches(Head(rest)[1], curr_e)
       THEN Sweep_NoFinalAppend(Tail(rest), curr_s, Max(curr_e, Head(rest)[2]), merged)
       ELSE Sweep_NoFinalAppend(Tail(rest), Head(rest)[1], Head(rest)[2],
                                Append(merged, <<curr_s, curr_e>>))

\* The sweep over raw_ranges[1:] with the current block (curr_s, curr_e).
RECURSIVE Sweep(_, _, _, _)
Sweep(rest, curr_s, curr_e, merged) ==
  IF rest = <<>> THEN Append(merged, <<curr_s, curr_e>>)
  ELSE IF Touches(Head(rest)[1], curr_e)
       THEN Sweep(Tail(rest), curr_s, Max(curr_e, Head(rest)[2]), merged)
       ELSE Sweep(Tail(rest), Head(rest)[1], Head(rest)[2],
                  Append(merged, <<curr_s, curr_e>>))

\* Lines 130-142: sort the raw ranges and sweep them.
MergeRanges(raw_ranges) ==
  IF raw_ranges = <<>> THEN <<>>
  ELSE LET sorted == SortByStart(raw_ranges)
       IN  Sweep(Tail(sorted), sorted[1][1], sorted[1][2], <<>>)

\* A row is [len |-> number of columns, genre, genre2, title |-> cells,
\* win |-> the four pairs of window cells].  The pair's columns are inside the row.
InRow(len, w) == ~(MASTER_WINDOWS[w][1] >= len \/ MASTER_WINDOWS[w][2] >= len)

RECURSIVE RawRanges(_, _)
RawRanges(r, w) ==
  IF w > Len(MASTER_WINDOWS) THEN <<>>
  ELSE (IF InRow(r.len, w) THEN ValidRange(r.win[w][1], r.win[w][2]) ELSE <<>>)
       \o RawRanges(r, w + 1)

get_all_valid_blocks(r) == MergeRanges(RawRanges(r, 1))

\* ----------------------------------------------------------- genre tokens
\* row_genre_list without the upper-casing: the comparison minds the case.
row_genre_list_Cased(raw_genre_str) ==
  LET parts == Split(Replace(raw_genre_str, ",", ";"), ";")
  IN  [i \in 1..Len(parts) |-> Strip(parts[i])]

\* Line 265: the pieces of the genre text, each stripped and upper-cased
\* (empty pieces stay in the list).
row_genre_list(raw_genre_str) ==
  LET parts == Split(Replace(raw_genre_str, ",", ";"), ";")
  IN  [i \in 1..Len(parts) |-> Upper(Strip(parts[i]))]

\* list.index(x): the 0-based position of the first x.
IndexOf(list, x) ==
  (CHOOSE i \in 1..Len(list) : list[i] = x /\ \A j \in 1..(i - 1) : list[j] # x) - 1

\* Lines 277-283.
sort_score(list, search_upper) ==
  IF Len(list) = 1 THEN 0 ELSE IndexOf(list, search_upper) + 1

\* Lines 193-202: the distinct non-empty stripped pieces of one genre cell.
CellGenres(val) ==
  IF val.k # "str" THEN {}
  ELSE LET parts == Split(Replace(val.s, ",", ";"), ";")
       IN  {Strip(parts[i]) : i \in 1..Len(parts)} \ {<<>>}

\* Characters in code point order, which is how sorted() compares text.
CodeOrder == <<" ", ",", ";">> \o Capital \o Lower
Rank(c) == CHOOSE i \in 1..Len(CodeOrder) : CodeOrder[i] = c

RECURSIVE TextLess(_, _)
TextLess(a, b) ==
  IF b = <<>> THEN FALSE
  ELSE IF a = <<>> THEN TRUE
  ELSE IF Head(a) # Head(b) THEN Rank(Head(a)) < Rank(Head(b))
  ELSE TextLess(Tail(a), Tail(b))

\* sorted(list(unique_genres_set))
RECURSIVE SortedTexts(_)
SortedTexts(S) ==
  IF S = {} THEN <<>>
  ELSE LET least == CHOOSE a \in S : \A b \in S \ {a} : TextLess(a, b)
       IN  <<least>> \o SortedTexts(S \ {least})

\* Lines 188-205: the genres get_user_genre offers, in the order it lists them.
OfferedGenres(cat) ==
  SortedTexts(UNION {CellGenres(cat[i].genre) : i \in 1..Len(cat)})

\* ---------------------------------------------------------- user input
\* datetime.strptime(text, "%m-%d-%Y").  An entry is the sequence of the
\* numbers between its dashes; the result is <<day>>, or <<>> for ValueError.
strptime(entry) ==
  IF /\ Len(entry) = 3
     /\ entry[1] \in 1..12
     /\ entry[3] = 2026
     /\ entry[2] \in 1..MonthDays[entry[1]]
  THEN <<MonthStart[entry[1]] + entry[2]>>
  ELSE <<>>

\* user_dates without the test of the order of the two dates.
user_dates_Unordered(s_entry, e_entry) ==
  LET start_date == strptime(s_entry)
      end_date == strptime(e_entry)
  IN  IF start_date = <<>> \/ end_date = <<>> THEN <<>>
      ELSE <<start_date[1], end_date[1]>>

\* Lines 173-180: the pair get_user_dates returns for the two entries, or <<>>
\* when it prompts again.
user_dates(s_entry, e_entry) ==
  LET start_date == strptime(s_entry)
      end_date == strptime(e_entry)
  IN  IF start_date = <<>> \/ end_date = <<>> THEN <<>>
      ELSE IF end_date[1] < start_date[1] THEN <<>>
      ELSE <<start_date[1], end_date[1]>>

\* --------------------------------------------------------- the row loop
\* Supports as an overlap test: the block and the window share a day.
Supports_Overlap(v_start, v_end, user_s, user_e) == v_start <= user_e /\ v_end >= user_s

\* Line 298: the block covers the full requested window.
Supports(v_start, v_end, user_s, user_e) == v_start <= user_s /\ v_end >= user_e

\* Lines 296-301: the first supporting block (the loop breaks there), as
\* <<block>>, or <<>>.
RECURSIVE FirstSupporting(_, _, _)
FirstSupporting(valid_blocks, user_s, user_e) ==
  IF valid_blocks = <<>> THEN <<>>
  ELSE IF Supports(Head(valid_blocks)[1], Head(valid_blocks)[2], user_s, user_e)
       THEN <<Head(valid_blocks)>>
       ELSE FirstSupporting(Tail(valid_blocks), user_s, user_e)

\* f"[{format_date_str(s)}] to [{format_date_str(e)}]"
BlockText(b) == [from |-> format_date_str(b[1]), to |-> format_date_str(b[2])]

\* ValidText naming the row's first block for an ACTIVE row.
ValidText_FirstBlock(valid_blocks, supporting) ==
  IF supporting # <<>> THEN <<BlockText(valid_blocks[1])>>
  ELSE IF valid_blocks = <<>> THEN <<[marker |-> "NO VALID DATES"]>>
  ELSE [i \in 1..Len(valid_blocks) |-> BlockText(valid_blocks[i])]

\* Lines 314-330: the "Valid Master Window" text, as the sequence of the block
\* texts it joins (one for an ACTIVE row), or the NO VALID DATES marker.
ValidText(valid_blocks, supporting) ==
  IF supporting # <<>> THEN <<BlockText(supporting[1])>>
  ELSE IF valid_blocks = <<>> THEN <<[marker |-> "NO VALID DATES"]>>
  ELSE [i \in 1..Len(valid_blocks) |-> BlockText(valid_blocks[i])]

\* Lines 285-288: the row has a title.
HasTitle(r) == ~(MASTER_IDX_TITLE >= r.len) /\ r.title.k # "nan"

\* Lines 258-330, one iteration of the loop over the rows: <<row_data>> for
\* the row r (the n-th of the catalog), or <<>> when the loop continues
\* without one.  Row is history: the row's place in the catalog.
RowRecord(r, n, user_s, user_e, genre) ==
  IF MASTER_IDX_GENRE >= r.len THEN <<>>
  ELSE LET raw_genre_str == clean_text(r.genre)
           list == row_genre_list(raw_genre_str)
           search_upper == Upper(genre)
           sec_genre_val == IF MASTER_IDX_GENRE_2 < r.len
                            THEN clean_text(r.genre2) ELSE <<>>
           valid_blocks == get_all_valid_blocks(r)
           supporting == FirstSupporting(valid_blocks, user_s, user_e)
       IN  IF raw_genre_str = <<>> THEN <<>>
           ELSE IF \A i \in 1..Len(list) : list[i] # search_upper THEN <<>>
           ELSE IF ~HasTitle(r) THEN <<>>
           ELSE <<[Title |-> r.title,
                   MainGenre |-> genre,
                   FullMainGenreValues |-> raw_genre_str,
                   SecondGenre |-> sec_genre_val,
                   RequestedWindowStart |-> format_date_str(user_s),
                   RequestedWindowEnd |-> format_date_str(user_e),
                   Sort_Score |-> sort_score(list, search_upper),
                   ValidMasterWindow |-> ValidText(valid_blocks, supporting),
                   Status |-> IF supporting # <<>> THEN "ACTIVE" ELSE "INACTIVE",
                   Row |-> n]>>

\* ------------------------------------------------------------ the report
\* InsertByScore putting a record before the records of its own score.
RECURSIVE InsertByScore_Unstable(_, _)
InsertByScore_Unstable(sorted, x) ==
  IF sorted = <<>> THEN <<x>>
  ELSE IF sorted[Len(sorted)].Sort_Score < x.Sort_Score THEN Append(sorted, x)
  ELSE Append(InsertByScore_Unstable(SubSeq(sorted, 1, Len(sorted) - 1), x),
              sorted[Len(sorted)])

\* list.sort(key=lambda x: x["Sort_Score"]): stable.
RECURSIVE InsertByScore(_, _)
InsertByScore(sorted, x) ==
  IF sorted = <<>> THEN <<x>>
  ELSE IF sorted[Len(sorted)].Sort_Score <= x.Sort_Score THEN Append(sorted, x)
  ELSE Append(InsertByScore(SubSeq(sorted, 1, Len(sorted) - 1), x), sorted[Len(sorted)])

RECURSIVE SortByScore(_)
SortByScore(ms) ==
  IF ms = <<>> THEN <<>>
  ELSE InsertByScore(SortByScore(SubSeq(ms, 1, Len(ms) - 1)), ms[Len(ms)])

\* df.drop(columns=["Sort_Score"]) (the history field goes with it).
DropScore(x) ==
  [f \in (DOMAIN x) \ {"Sort_Score", "Row"} |-> x[f]]

\* Lines 341-356: one sheet of the report, from the sorted list.
Sheet(sorted, placeholder) ==
  IF sorted # <<>> THEN [i \in 1..Len(sorted) |-> DropScore(sorted[i])]
  ELSE <<[text |-> placeholder]>>

\* ------------------------------------------------------------------ state
VARIABLES
  pc,               \* where the program is
  catalog,          \* df_master: the rows of the sheet
  idx,              \* the rows the loop of run_genre_checker has been through
  user_start,       \* the requested window (0: not entered yet)
  user_end,
  selected_genre,
  s_str,            \* get_user_dates: the entries it last read
  e_str,
  selection,        \* get_user_genre: the number it last read (-1: no number)
  matches_active,
  matches_inactive,
  sheet_active,     \* the report's sheets
  sheet_inactive,
  row_len,          \* len(row) of the row get_all_valid_blocks is reading
  win_i,            \* the window pair its loop is at (1..4)
  raw_ranges,       \* its raw_ranges
  merged,           \* the list it returned
  remerged,         \* the list a second merge of that list returned
  covered           \* history: the days of the valid window pairs read so far

pvars == <<catalog, idx, user_start, user_end, selected_genre, s_str, e_str,
           selection, matches_active, matches_inactive, sheet_active,
           sheet_inactive>>
mvars == <<row_len, win_i, raw_ranges, merged, remerged, covered>>
vars == <<pc, pvars, mvars>>

\* The variables of run_genre_checker before it starts.
Idle ==
  /\ catalog = <<>>
  /\ idx = 0
  /\ user_start = 0
  /\ user_end = 0
  /\ selected_genre = <<>>
  /\ s_str = <<>>
  /\ e_str = <<>>
  /\ selection = 0
  /\ matches_active = <<>>
  /\ matches_inactive = <<>>
  /\ sheet_active = <<>>
  /\ sheet_inactive = <<>>

\* The variables of the stepwise get_all_valid_blocks when it is not running.
NoMerge ==
  /\ row_len = 0
  /\ win_i = 0
  /\ raw_ranges = <<>>
  /\ merged = <<>>
  /\ remerged = <<>>
  /\ covered = {}

\* ------------------------------------------- get_all_valid_blocks, stepwise
Hours == {0, 12}
Blank == Str(<<>>)
Sentinel == Str(<<" ", "e", "m", "p", "t", "y">>)
Junk == Str(<<"t", "b", "d">>)
WindowCells == {NaN, Blank, Sentinel, Junk} \cup {Ts(d, h) : d \in 1..MaxDay, h \in Hours}
RowLens == {16, 17, 20, 23, 26}

\* The days first..last.
Days(first, last) == first..last

InitMerge ==
  /\ pc = "windows"
  /\ row_len \in RowLens
  /\ win_i = 1
  /\ raw_ranges = <<>>
  /\ merged = <<>>
  /\ remerged = <<>>
  /\ covered = {}
  /\ Idle

\* Lines 123-128: one window pair of the row.
ReadWindow ==
  /\ pc = "windows"
  /\ win_i <= Len(MASTER_WINDOWS)
  /\ \/ /\ ~InRow(row_len, win_i)
        /\ UNCHANGED <<raw_ranges, covered>>
     \/ /\ InRow(row_len, win_i)
        /\ \E sc \in WindowCells, ec \in WindowCells :
             /\ raw_ranges' = raw_ranges \o ValidRange(sc, ec)
             /\ covered' = covered \cup
                  (IF sc.k = "ts" /\ ec.k = "ts" THEN Days(sc.d, ec.d) ELSE {})
  /\ win_i' = win_i + 1
  /\ UNCHANGED <<pc, row_len, merged, remerged, pvars>>

\* Lines 130-142: the merge, and the return (the locals go out of scope).
MergeWindows ==
  /\ pc = "windows"
  /\ win_i > Len(MASTER_WINDOWS)
  /\ merged' = MergeRanges(raw_ranges)
  /\ raw_ranges' = <<>>
  /\ pc' = "merged"
  /\ UNCHANGED <<row_len, win_i, remerged, covered, pvars>>

\* The returned list merged once more (as its own raw ranges).
ReMerge ==
  /\ pc = "merged"
  /\ remerged' = MergeRanges(merged)
  /\ pc' = "remerged"
  /\ UNCHANGED <<row_len, win_i, raw_ranges, merged, covered, pvars>>

NextMerge == ReadWindow \/ MergeWindows \/ ReMerge

SpecMerge == InitMerge /\ [][NextMerge]_vars

\* C1: the returned blocks are sorted strictly ascending by start, each has
\* start <= end, and consecutive blocks are more than one day apart
\* (next.start > previous.end + 1).
C1_BlocksSeparated ==
  pc \in {"merged", "remerged"} =>
    /\ \A i \in 1..Len(merged) : merged[i][1] <= merged[i][2]
    /\ \A i \in 1..(Len(merged) - 1) :
         /\ merged[i][1] < merged[i + 1][1]
         /\ merged[i + 1][1] > merged[i][2] + 1

\* Four valid pairs were read and merged into at least two blocks.
C1_Witness ==
  /\ pc = "merged"
  /\ row_len = 26
  /\ Len(merged) >= 3

DaysOf(blocks) == UNION {Days(blocks[i][1], blocks[i][2]) : i \in 1..Len(blocks)}

\* C2: the days the returned blocks cover are exactly the days covered by the
\* row's valid window pairs (both columns inside the row, both cells dates,
\* start <= end).
C2_SameDays == pc \in {"merged", "remerged"} => DaysOf(merged) = covered

C2_Witness ==
  /\ pc = "merged"
  /\ row_len = 20
  /\ Len(merged) = 2
  /\ Cardinality(covered) = 3

\* C9: merging the returned list again gives the same list.
C9_Idempotent == pc = "remerged" => remerged = merged

C9_Witness == pc = "remerged" /\ Len(remerged) = 3

\* ------------------------------------------------------ run_genre_checker
NoWindows == [w \in 1..4 |-> <<NaN, NaN>>]
Row(len, genre, genre2, title, win) ==
  [len |-> len, genre |-> genre, genre2 |-> genre2, title |-> title, win |-> win]

\* What the operator types at the date prompts: days of January, February 1st,
\* a day and a month that do not exist, and an entry with too few parts.
DateEntries ==
  {<<1, d, 2026>> : d \in 1..MaxQueryDay}
    \cup {<<2, 1, 2026>>, <<1, 32, 2026>>, <<13, 1, 2026>>, <<1, 1>>}

\* The rows of the catalogs of the whole program.
TitleT == Str(<<"T">>)
CatalogRows ==
  {Row(26, g, NaN, TitleT, w) :
     g \in {Str(<<"D">>), Str(<<"C", ";", "D">>)},
     w \in {NoWindows, [NoWindows EXCEPT ![1] = <<Ts(1, 0), Ts(MaxQueryDay, 0)>>]}}
    \cup {Row(26, NaN, NaN, TitleT, NoWindows)}
Catalogs == UNION {[1..n -> CatalogRows] : n \in 1..MaxRows}

Init ==
  /\ pc = "dates"
  /\ catalog \in Catalogs
  /\ idx = 0
  /\ user_start = 0
  /\ user_end = 0
  /\ selected_genre = <<>>
  /\ s_str = <<>>
  /\ e_str = <<>>
  /\ selection = 0
  /\ matches_active = <<>>
  /\ matches_inactive = <<>>
  /\ sheet_active = <<>>
  /\ sheet_inactive = <<>>
  /\ NoMerge

\* Lines 166-182: one round of the two date prompts.
GetUserDates ==
  /\ pc = "dates"
  /\ \E s \in DateEntries, e \in DateEntries :
       LET r == user_dates(s, e)
       IN  IF r = <<>>
           THEN /\ s_str' = s
                /\ e_str' = e
                /\ UNCHANGED <<pc, user_start, user_end>>
           ELSE /\ user_start' = r[1]
                /\ user_end' = r[2]
                /\ s_str' = <<>>
                /\ e_str' = <<>>
                /\ pc' = "genre"
  /\ UNCHANGED <<catalog, idx, selected_genre, selection, matches_active,
                 matches_inactive, sheet_active, sheet_inactive, mvars>>

\* Lines 184-229 and 247-249: the genre menu and one round of its prompt.
GetUserGenre ==
  /\ pc = "genre"
  /\ LET genres == OfferedGenres(catalog)
     IN  \/ /\ genres = <<>>
            /\ pc' = "exit"
            /\ UNCHANGED <<selected_genre, selection>>
         \/ /\ genres # <<>>
            /\ \E typed \in (-1)..(Len(genres) + 1) :
                 IF typed >= 0 /\ 0 <= typed - 1 /\ typed - 1 < Len(genres)
                 THEN /\ selected_genre' = genres[typed]
                      /\ selection' = 0
                      /\ pc' = "scan"
                 ELSE /\ selection' = typed
                      /\ UNCHANGED <<pc, selected_genre>>
  /\ UNCHANGED <<catalog, idx, user_start, user_end, s_str, e_str, matches_active,
                 matches_inactive, sheet_active, sheet_inactive, mvars>>

\* Lines 257-330: the loop's next row.
ProcessRow ==
  /\ pc = "scan"
  /\ idx < Len(catalog)
  /\ idx' = idx + 1
  /\ LET row_data == RowRecord(catalog[idx + 1], idx + 1, user_start, user_end,
                               selected_genre)
     IN  IF row_data = <<>> THEN UNCHANGED <<matches_active, matches_inactive>>
         ELSE IF row_data[1].Status = "ACTIVE"
         THEN /\ matches_active' = Append(matches_active, row_data[1])
              /\ UNCHANGED matches_inactive
         ELSE /\ matches_inactive' = Append(matches_inactive, row_data[1])
              /\ UNCHANGED matches_active
  /\ UNCHANGED <<pc, catalog, user_start, user_end, selected_genre, s_str, e_str,
                 selection, sheet_active, sheet_inactive, mvars>>

\* Lines 333-356: both lists are sorted in place and written as sheets.
WriteReport ==
  /\ pc = "scan"
  /\ idx = Len(catalog)
  /\ matches_active' = SortByScore(matches_active)
  /\ matches_inactive' = SortByScore(matches_inactive)
  /\ sheet_active' = Sheet(SortByScore(matches_active), "No active titles found")
  /\ sheet_inactive' = Sheet(SortByScore(matches_inactive), "No inactive titles found")
  /\ pc' = "done"
  /\ UNCHANGED <<catalog, idx, user_start, user_end, selected_genre, s_str, e_str,
                 selection, mvars>>

Next == GetUserDates \/ GetUserGenre \/ ProcessRow \/ WriteReport

Spec == Init /\ [][Next]_vars

\* ------------------------------------------- the row loop on one row alone
\* The loop's state at line 257 with a catalog of one row.
AtRow(r, user_s, user_e, genre) ==
  /\ pc = "scan"
  /\ catalog = <<r>>
  /\ idx = 0
  /\ user_start = user_s
  /\ user_end = user_e
  /\ selected_genre = genre
  /\ s_str = <<>>
  /\ e_str = <<>>
  /\ selection = 0
  /\ matches_active = <<>>
  /\ matches_inactive = <<>>
  /\ sheet_active = <<>>
  /\ sheet_inactive = <<>>
  /\ NoMerge

NextRow == ProcessRow \/ WriteReport

\* Genre cells: every text of up to MaxGenreLen characters over two genre
\* names (one in both cases), both separators and the blank.  The title cell
\* is missing, an empty text or a title.
GenreChars == {"D", "d", "C", ";", ",", " "}
GenreCells == {NaN} \cup {Str(s) : s \in UNION {[1..k -> GenreChars] : k \in 0..MaxGenreLen}}
GenreRows ==
  {Row(26, g, NaN, t, [NoWindows EXCEPT ![1] = <<Ts(1, 0), Ts(MaxQueryDay, 0)>>]) :
     g \in GenreCells, t \in {NaN, Blank, TitleT}}

InitGenre ==
  \E r \in GenreRows, user_e \in {1, MaxDay}, genre \in {<<"D">>, <<"d">>, <<"C">>} :
    AtRow(r, 1, user_e, genre)

SpecGenre == InitGenre /\ [][NextRow]_vars

\* Window layouts: the first two pairs hold any two cells each that are a day
\* or empty (so the pairs overlap, nest, touch, lie apart or are reversed, in
\* either column order), or the pairs hold ranges that lie apart or touch, in
\* ascending order.
DayCells == {NaN} \cup {Ts(d, 0) : d \in 1..MaxDay}
RangePairs == {<<Ts(s, 0), Ts(e, 0)>> : s \in 1..MaxDay, e \in 1..MaxDay} \cup {<<NaN, NaN>>}
TwoPairLayouts ==
  {[NoWindows EXCEPT ![1] = p, ![2] = q] :
     p \in DayCells \X DayCells, q \in DayCells \X DayCells}
OrderedLayouts ==
  {w \in [1..4 -> RangePairs] :
     /\ \A i \in 1..4 : w[i][1].k = "ts" => w[i][1].d <= w[i][2].d
     /\ \A i \in 1..3 : w[i + 1][1].k = "ts" =>
                          w[i][1].k = "ts" /\ w[i][2].d < w[i + 1][1].d}
MatchRows ==
  {Row(26, Str(<<"D">>), NaN, t, w) :
     t \in {NaN, TitleT}, w \in TwoPairLayouts \cup OrderedLayouts}

InitMatch ==
  \E r \in MatchRows, user_s \in 1..MaxDay, user_e \in 1..MaxDay :
    /\ user_s <= user_e
    /\ AtRow(r, user_s, user_e, <<"D">>)

SpecMatch == InitMatch /\ [][NextRow]_vars

\* The row loop handed any pair of days as the requested window.
InitHanded ==
  \E r \in MatchRows, user_s \in 1..MaxDay, user_e \in 1..MaxDay :
    AtRow(r, user_s, user_e, <<"D">>)

SpecHanded == InitHanded /\ [][NextRow]_vars

\* ------------------------------------------------------------- properties
\* The records of both lists.
Records == {matches_active[i] : i \in 1..Len(matches_active)}
             \cup {matches_inactive[i] : i \in 1..Len(matches_inactive)}

\* The row's merged blocks, as a set, and those that hold the requested window.
BlocksOf(r) ==
  LET b == get_all_valid_blocks(r) IN {b[i] : i \in 1..Len(b)}
Holding(r) == {b \in BlocksOf(r) : b[1] <= user_start /\ b[2] >= user_end}

\* C3 as stated: once the (genre-qualifying) row is processed, it is ACTIVE if
\* and only if some merged block has start <= user_start and end >= user_end,
\* and INACTIVE otherwise.
C3_ActiveIffHeld ==
  idx = 1 =>
    /\ Len(matches_active) = 1 <=> Holding(catalog[1]) # {}
    /\ Len(matches_inactive) = 1 <=> Holding(catalog[1]) = {}

\* C3 amended: the same, for a row that has a title.
C3_TitledActiveIffHeld ==
  (idx = 1 /\ HasTitle(catalog[1])) =>
    /\ Len(matches_active) = 1 <=> Holding(catalog[1]) # {}
    /\ Len(matches_inactive) = 1 <=> Holding(catalog[1]) = {}
    /\ \A x \in Records : x.Status = (IF Holding(catalog[1]) # {} THEN "ACTIVE" ELSE "INACTIVE")

\* Two blocks with a gap, the requested window starts in the first and ends in
\* the second: INACTIVE.
C3_Witness ==
  /\ idx = 1
  /\ Len(matches_inactive) = 1
  /\ \E a \in BlocksOf(catalog[1]), b \in BlocksOf(catalog[1]) :
       /\ a[2] < b[1]
       /\ a[1] <= user_start /\ user_start <= a[2]
       /\ b[1] <= user_end /\ user_end <= b[2]

\* C10: at most one merged block holds the requested window, and the block
\* recorded for an ACTIVE row is that block.
C10_OneSupportingBlock ==
  idx = 1 =>
    /\ Cardinality(Holding(catalog[1])) <= 1
    /\ \A i \in 1..Len(matches_active) :
         \E b \in Holding(catalog[1]) :
           matches_active[i].ValidMasterWindow = <<BlockText(b)>>

\* An ACTIVE row of two blocks whose second block is the supporting one.
C10_Witness ==
  /\ idx = 1
  /\ Len(matches_active) = 1
  /\ Cardinality(BlocksOf(catalog[1])) >= 2
  /\ \E b \in Holding(catalog[1]) : \E a \in BlocksOf(catalog[1]) : a[1] < b[1]

NonEmpty(s) == s # <<>>
GenreTokens(cell) ==
  IF cell.k # "str" THEN <<>>
  ELSE LET parts == Split(Replace(cell.s, ",", ";"), ";")
       IN  SelectSeq([i \in 1..Len(parts) |-> Strip(parts[i])], NonEmpty)
\* The query genre is one of the tokens of the cell, whatever the case.
HasGenre(cell, genre) ==
  \E i \in 1..Len(GenreTokens(cell)) : Upper(GenreTokens(cell)[i]) = Upper(genre)
\* The sort key of section 4.4.
SortKey(cell, genre) ==
  LET toks == GenreTokens(cell)
  IN  IF Len(toks) = 1 THEN 0
      ELSE CHOOSE i \in 1..Len(toks) :
             /\ Upper(toks[i]) = Upper(genre)
             /\ \A j \in 1..(i - 1) : Upper(toks[j]) # Upper(genre)

\* C4: the sort key of a matching row is 0 if the query genre is the row's
\* only token, and otherwise 1 + its 0-based position among the tokens.
C4_SortKey ==
  \A x \in Records : x.Sort_Score = SortKey(catalog[x.Row].genre, selected_genre)

\* C5 as stated: a row yields exactly one record if and only if the query genre
\* is one of its tokens (whatever the case), and none otherwise.
C5_RecordIffGenre ==
  idx = 1 =>
    Len(matches_active) + Len(matches_inactive) =
      (IF HasGenre(catalog[1].genre, selected_genre) THEN 1 ELSE 0)

\* C5 amended: a row yields exactly one record if and only if the query genre
\* is one of its tokens and the row has a title, and none otherwise.
C5_RecordIffGenreAndTitle ==
  idx = 1 =>
    Len(matches_active) + Len(matches_inactive) =
      (IF HasGenre(catalog[1].genre, selected_genre) /\ catalog[1].title.k # "nan"
       THEN 1 ELSE 0)

\* A record for a row whose genre matches the query only up to case.
C5_Witness ==
  /\ idx = 1
  /\ Len(matches_active) + Len(matches_inactive) = 1
  /\ selected_genre = <<"d">>
  /\ \A i \in 1..Len(catalog[1].genre.s) : catalog[1].genre.s[i] # "d"

\* C8: get_user_dates returns only a pair with start <= end, and every entry
\* it has turned down was malformed or had its end before its start.
C8_DatesOrdered ==
  /\ pc # "dates" => (1 <= user_start /\ user_start <= user_end)
  /\ (pc = "dates" /\ s_str # <<>>) =>
       \/ strptime(s_str) = <<>>
       \/ strptime(e_str) = <<>>
       \/ strptime(e_str)[1] < strptime(s_str)[1]

\* Two well-formed entries with the end before the start were turned down.
C8_Witness ==
  /\ pc = "dates"
  /\ strptime(s_str) # <<>>
  /\ strptime(e_str) # <<>>
  /\ strptime(e_str)[1] < strptime(s_str)[1]

\* C6: every record is in the group of its Status, each row's record is in one
\* group once, each group is in ascending sort key order with equal keys in
\* catalog order, and the sheets are the groups in that order.
C6_Report ==
  pc = "done" =>
    /\ \A i \in 1..Len(matches_active) : matches_active[i].Status = "ACTIVE"
    /\ \A i \in 1..Len(matches_inactive) : matches_inactive[i].Status = "INACTIVE"
    /\ Cardinality({x.Row : x \in Records}) = Len(matches_active) + Len(matches_inactive)
    /\ {x.Row : x \in Records} =
         {n \in 1..Len(catalog) :
            RowRecord(catalog[n], n, user_start, user_end, selected_genre) # <<>>}
    /\ \A x \in Records :
         <<x>> = RowRecord(catalog[x.Row], x.Row, user_start, user_end, selected_genre)
    /\ \A ms \in {matches_active, matches_inactive} :
         \A i \in 1..Len(ms) : \A j \in (i + 1)..Len(ms) :
           \/ ms[i].Sort_Score < ms[j].Sort_Score
           \/ ms[i].Sort_Score = ms[j].Sort_Score /\ ms[i].Row < ms[j].Row
    /\ sheet_active =
         (IF matches_active = <<>> THEN <<[text |-> "No active titles found"]>>
          ELSE [i \in 1..Len(matches_active) |->
                  [f \in (DOMAIN matches_active[i]) \ {"Sort_Score", "Row"} |->
                     matches_active[i][f]]])
    /\ sheet_inactive =
         (IF matches_inactive = <<>> THEN <<[text |-> "No inactive titles found"]>>
          ELSE [i \in 1..Len(matches_inactive) |->
                  [f \in (DOMAIN matches_inactive[i]) \ {"Sort_Score", "Row"} |->
                     matches_inactive[i][f]]])

\* A group of three records: the first row's key is the largest, the other two
\* rows have equal keys.
C6_Witness ==
  /\ pc = "done"
  /\ Len(matches_inactive) = 3
  /\ matches_inactive[1].Row = 2
  /\ matches_inactive[2].Row = 3
  /\ matches_inactive[3].Row = 1

=============================================================================
